---- MODULE Spec2Model ----
(***************************************************************************)
(* State-machine model of the progress/leveling engine of the fitness and  *)
(* diet tracker (src/index.tsx): the App component's state, its handlers,  *)
(* the localStorage snapshots they write, and the values the               *)
(* ProgressDashboard derives on every render.                              *)
(*                                                                         *)
(* Representation                                                          *)
(*  - A JS object is a record over the keys it actually carries, so an     *)
(*    optional field that is absent is simply not in the DOMAIN.           *)
(*  - A JS string that the code takes apart (exercise descriptions,        *)
(*    activity types) is a sequence of tokens; "(" and " " are tokens.     *)
(*  - completionStatus only ever holds the value true, so it is the set    *)
(*    of its keys.                                                         *)
(*  - A localStorage value is <<>> (getItem returns null), <<"garbage">>   *)
(*    (a string JSON.parse throws on), <<"json", v>> (JSON text whose      *)
(*    parse is v) or <<"raw", s>> (the plain string s).                    *)
(*  - new Date() is read as the pair (now, today): now is the millisecond  *)
(*    clock behind toISOString(), today the local calendar day behind      *)
(*    toLocaleDateString('en-CA').                                         *)
(***************************************************************************)
EXTENDS Integers, Sequences, FiniteSets, TLC

VARIABLES
    phase,            \* "boot" before the mount effect has run, "run" after
    now,              \* millisecond clock
    today,            \* local calendar day
    storage,          \* localStorage: key -> stored string
    savedPlans,       \* useState<SavedPlan[]>
    activityLog,      \* useState<ActivityLog[]>
    characterGender,  \* useState<CharacterGender | null>
    levelUpInfo,      \* useState<{show, newLevel}>
    fitnessPlan,      \* useState<FitnessPlan | null>: <<>> or <<plan>>
    isLoading,        \* useState<boolean>
    error,            \* useState<string | null>
    pending,          \* handleGeneratePlan calls suspended at the await
    dash              \* values derived by the ProgressDashboard render, once observed

vars == <<phase, now, today, storage, savedPlans, activityLog, characterGender,
          levelUpInfo, fitnessPlan, isLoading, error, pending, dash>>

-----------------------------------------------------------------------------
(* Bounds of the exploration *)

MaxSession == 2     \* per session: records created or requested, plus days elapsed
ScenarioDays == 10  \* calendar days of the leveling scenario
ScenarioRepeats == 1 \* workouts of the leveling scenario on an already counted day
DashDays == 5       \* calendar days covered by the stored logs that are rendered
MaxChartPlans == 3  \* plans of a stored history whose weight chart is rendered

-----------------------------------------------------------------------------
(* Program constants *)

DAYS_PER_LEVEL == 5
DEFAULT_WATER_GOAL == 3000
DEFAULT_DURATION == 60
Infinity == 1000000     \* Number() of a digit string beyond the double range
JNull == -1             \* JSON null in a numeric position
SessionStart == 5       \* clock and calendar day at which the session mounts
MsPerDay == 86400000    \* getTime() of a 'YYYY-MM-DD' date: milliseconds per calendar day

DAYS_OF_WEEK ==
    {"Monday", "Tuesday", "Wednesday", "Thursday", "Friday", "Saturday", "Sunday"}

quickAddAmounts == {250, 500, 750}

WaterIntake == <<"Water", " ", "Intake">>
PlannedWorkout == <<"Planned", " ", "Workout">>
Running == <<"Running">>

StorageKeys == {"fitnessPlans", "activityLog", "characterGender"}
Null == <<>>
Garbage == <<"garbage">>
NoGender == "null"
NoError == "null"
GenerationFailed ==
    "Failed to generate a fitness plan. The model may be unavailable or the request was invalid. Please try again."

-----------------------------------------------------------------------------
(* Small helpers *)

Min(S) == CHOOSE x \in S : \A y \in S : x <= y
Max(S) == CHOOSE x \in S : \A y \in S : x >= y

RECURSIVE SumSeq(_)
SumSeq(s) == IF s = <<>> THEN 0 ELSE Head(s) + SumSeq(Tail(s))

Has(obj, key) == key \in DOMAIN obj

-----------------------------------------------------------------------------
(* JSON.stringify / JSON.parse and localStorage *)

NumericKeys == {"duration", "amount", "weight"}

\* JSON.stringify of a number: a non-finite number is written as null.
stringifyNumber(n) == IF n = Infinity THEN JNull ELSE n

stringifyObject(o) ==
    [k \in DOMAIN o |-> IF k \in NumericKeys THEN stringifyNumber(o[k]) ELSE o[k]]

stringifyActivities(log) ==
    <<"json", [i \in 1..Len(log) |-> stringifyObject(log[i])]>>

stringifyPlan(p) ==
    [p EXCEPT !.userData = stringifyObject(p.userData)]

stringifyPlans(plans) ==
    <<"json", [i \in 1..Len(plans) |-> stringifyPlan(plans[i])]>>

\* if (stored): getItem returned a non-empty string.
Truthy(item) == item # Null
Throws(item) == item = Garbage
JSONparse(item) == item[2]

-----------------------------------------------------------------------------
(* Leveling engine and label derivation *)

IsWorkout(log) == log.type # WaterIntake

\* Variant: counts workout entries instead of distinct workout dates.
calculateLevelPerEntry(log) ==
    LET workouts == SelectSeq(log, IsWorkout)
        uniqueWorkoutDays == Len(workouts)
    IN  [level |-> (uniqueWorkoutDays \div DAYS_PER_LEVEL) + 1,
         progress |-> uniqueWorkoutDays % DAYS_PER_LEVEL,
         activeDays |-> uniqueWorkoutDays,
         xpForNextLevel |-> DAYS_PER_LEVEL]

\* Variant: water entries are not filtered out before the dates are counted.
calculateLevelAllTypes(log) ==
    LET uniqueWorkoutDays == Cardinality({log[i].date : i \in 1..Len(log)})
    IN  [level |-> (uniqueWorkoutDays \div DAYS_PER_LEVEL) + 1,
         progress |-> uniqueWorkoutDays % DAYS_PER_LEVEL,
         activeDays |-> uniqueWorkoutDays,
         xpForNextLevel |-> DAYS_PER_LEVEL]

calculateLevel(log) ==
    LET workouts == SelectSeq(log, IsWorkout)
        uniqueWorkoutDays ==
            Cardinality({workouts[i].date : i \in 1..Len(workouts)})
    IN  [level |-> (uniqueWorkoutDays \div DAYS_PER_LEVEL) + 1,
         progress |-> uniqueWorkoutDays % DAYS_PER_LEVEL,
         activeDays |-> uniqueWorkoutDays,
         xpForNextLevel |-> DAYS_PER_LEVEL]

\* s.split('(')[0]
splitParen0(s) ==
    LET parens == {i \in 1..Len(s) : s[i] = "("}
    IN  IF parens = {} THEN s ELSE SubSeq(s, 1, Min(parens) - 1)

\* s.trim()
trim(s) ==
    LET solid == {i \in 1..Len(s) : s[i] # " "}
    IN  IF solid = {} THEN <<>> ELSE SubSeq(s, Min(solid), Max(solid))

\* Variant: the || fallback is missing, an absent first exercise gives an
\* empty label.
workoutNameOfNoFallback(plan, day) ==
    LET wp == plan.plan.workoutPlan
    IN  IF Has(wp, day) /\ wp[day] # <<>> THEN wp[day][1] ELSE <<>>

\* plan.plan.workoutPlan[day]?.[0] || 'Planned Workout'
workoutNameOf(plan, day) ==
    LET wp == plan.plan.workoutPlan
    IN  IF Has(wp, day) /\ wp[day] # <<>> /\ wp[day][1] # <<>>
        THEN wp[day][1]
        ELSE PlannedWorkout

-----------------------------------------------------------------------------
(* Values derived by a ProgressDashboard render *)

\* Variant: the date test is missing from the filter.
todaysWaterIntakeAnyDay(log, todayStr) ==
    LET isWater(l) == /\ l.type = WaterIntake
                      /\ Has(l, "amount") /\ l.amount # 0
        drunk == SelectSeq(log, isWater)
    IN  SumSeq([i \in 1..Len(drunk) |-> drunk[i].amount])

todaysWaterIntake(log, todayStr) ==
    LET isTodaysWater(l) == /\ l.date = todayStr
                            /\ l.type = WaterIntake
                            /\ Has(l, "amount") /\ l.amount # 0
        drunk == SelectSeq(log, isTodaysWater)
    IN  SumSeq([i \in 1..Len(drunk) |-> drunk[i].amount])

\* Variant: reads the oldest plan (the last element) instead of the first.
waterGoalOldest(plans) ==
    LET product ==
            IF plans # <<>> /\ Has(plans[Len(plans)].plan, "recommendedWaterIntake")
            THEN plans[Len(plans)].plan.recommendedWaterIntake * 1000
            ELSE 0
    IN  IF product # 0 THEN product ELSE DEFAULT_WATER_GOAL

\* savedPlans[0]?.plan.recommendedWaterIntake * 1000 || 3000
\* (a missing plan or a missing field makes the product NaN, which is falsy)
waterGoal(plans) ==
    LET product ==
            IF plans # <<>> /\ Has(plans[1].plan, "recommendedWaterIntake")
            THEN plans[1].plan.recommendedWaterIntake * 1000
            ELSE 0
    IN  IF product # 0 THEN product ELSE DEFAULT_WATER_GOAL

\* new Date(date).getTime() for a date string of the form 'YYYY-MM-DD'
getTime(date) == date * MsPerDay

\* Where the stable Array.prototype.sort with the ascending date comparator
\* puts element i: after every element of an earlier date and after the
\* elements of the same date that precede it in the array.
chartRank(plans, i) ==
    Cardinality({j \in 1..Len(plans) :
                    getTime(plans[j].date) - getTime(plans[i].date) < 0})
    + Cardinality({j \in 1..i :
                    getTime(plans[j].date) - getTime(plans[i].date) = 0})

\* Variant: the copy of savedPlans is not sorted.
sortedPlansUnsorted(plans) == plans

\* [...savedPlans].sort((a, b) => new Date(a.date).getTime() - new Date(b.date).getTime())
sortedPlansForChart(plans) ==
    [k \in 1..Len(plans) |->
        plans[CHOOSE i \in 1..Len(plans) : chartRank(plans, i) = k]]

chartData(plans) ==
    LET sorted == sortedPlansForChart(plans)
    IN  [labels |-> [k \in 1..Len(sorted) |-> sorted[k].date],
         data |-> [k \in 1..Len(sorted) |-> sorted[k].userData.weight]]

\* dash before the dashboard has been rendered with loaded data.
NotRendered == [rendered |-> FALSE]

ProgressDashboard(plans, log, day) ==
    [rendered |-> TRUE,
     levelInfo |-> calculateLevel(log),
     todayStr |-> day,
     todaysWaterIntake |-> todaysWaterIntake(log, day),
     waterGoal |-> waterGoal(plans),
     sortedPlansForChart |-> sortedPlansForChart(plans),
     chartData |-> chartData(plans)]

-----------------------------------------------------------------------------
(* Inputs: what the user types, what the generation service returns, and    *)
(* what an earlier session left in localStorage                             *)

Squats == <<"Squats", " ", "(", "3x10", ")">>
Hydration == <<"Water", " ", "Intake", " ", "(", "2L", ")">>

PlanA ==
    [recommendedWaterIntake |-> 4,
     workoutPlan |-> [Monday |-> <<Squats>>, Sunday |-> <<>>]]
PlanB ==
    [recommendedWaterIntake |-> 0,
     workoutPlan |-> [Monday |-> <<Hydration>>, Sunday |-> <<>>]]

GeneratedPlans == {PlanA}
UserDatas == {[weight |-> 79]}
CharacterGenders == {"Male", "Female"}

\* Days handed to handleMarkComplete: a workout day, a rest day with an empty
\* list, a weekday the plan has no list for, and a string that is not a
\* weekday name.
CompletionDays == {"Monday", "Sunday", "Tuesday", "Funday"}
UnknownPlanId == 0

\* Number(text) for a text of decimal digits, given as the digit sequence.
RECURSIVE DecimalValue(_)
DecimalValue(ds) ==
    IF ds = <<>> THEN 0 ELSE 10 * DecimalValue(SubSeq(ds, 1, Len(ds) - 1)) + ds[Len(ds)]

\* Decimal digits of the largest finite double, 1.797...e308.
MaxDoubleDigits == 309

RECURSIVE stripZeros(_)
stripZeros(ds) ==
    IF ds # <<>> /\ Head(ds) = 0 THEN stripZeros(Tail(ds)) ELSE ds

\* A digit string longer than the largest double, or as long and starting
\* with 2 or more, is beyond the double range and converts to Infinity.
Number(ds) ==
    LET significant == stripZeros(ds)
    IN  IF \/ Len(significant) > MaxDoubleDigits
           \/ Len(significant) = MaxDoubleDigits /\ significant[1] >= 2
        THEN Infinity
        ELSE DecimalValue(significant)

HugeDigits == [i \in 1..MaxDoubleDigits |-> 9]

\* formData of the ActivityTracker form at submit time.
Form(type, duration) ==
    [type |-> type, duration |-> duration, intensity |-> "Medium", notes |-> <<>>]

FormInputs ==
    {Form(Running, <<3, 0>>), Form(Running, HugeDigits), Form(Running, <<0>>),
     Form(<<>>, <<3, 0>>), Form(Running, <<>>), Form(WaterIntake, <<3, 0>>)}

PriorWorkout(d) ==
    [id |-> d, date |-> d, type |-> Running, duration |-> 30,
     intensity |-> "Medium", notes |-> <<>>]

\* Workouts on days 4, 3, 2, 1, most recent first.
PriorLog == [i \in 1..(DAYS_PER_LEVEL - 1) |-> PriorWorkout(DAYS_PER_LEVEL - i)]

PriorPlan ==
    [id |-> 1, date |-> 1, userData |-> [weight |-> 80], plan |-> PlanA,
     completionStatus |-> {}]

EmptyStorage == [k \in StorageKeys |-> Null]

Stored(plans, log, gender) ==
    [fitnessPlans |-> plans, activityLog |-> log, characterGender |-> gender]

InitialStorages ==
    {EmptyStorage,
     Stored(Null, stringifyActivities(PriorLog), <<"raw", "Male">>),
     Stored(stringifyPlans(<<PriorPlan>>), Null, <<"raw", "Male">>),
     Stored(stringifyPlans(<<PriorPlan>>), Garbage, <<"raw", "Male">>),
     Stored(Garbage, stringifyActivities(PriorLog), <<"raw", "Male">>)}

-----------------------------------------------------------------------------
(* State after construction: every useState at its initial value *)

Constructed ==
    /\ phase = "boot"
    /\ now = SessionStart
    /\ today = SessionStart
    /\ savedPlans = <<>>
    /\ activityLog = <<>>
    /\ characterGender = NoGender
    /\ levelUpInfo = [show |-> FALSE, newLevel |-> 0]
    /\ fitnessPlan = Null
    /\ isLoading = FALSE
    /\ error = NoError
    /\ pending = <<>>
    /\ dash = NotRendered

Init ==
    /\ storage \in InitialStorages
    /\ Constructed

setItem(store, key, value) == [store EXCEPT ![key] = value]

-----------------------------------------------------------------------------
(* The mount effect: load from localStorage *)

\* What the effect leaves behind when it runs on a localStorage holding
\* `store`, the three useState values still being the initial ones.
loaded(store) ==
    LET storedPlans == store["fitnessPlans"]
        storedActivities == store["activityLog"]
        storedCharacter == store["characterGender"]
        plansThrow == Truthy(storedPlans) /\ Throws(storedPlans)
        activitiesThrow ==
            ~plansThrow /\ Truthy(storedActivities) /\ Throws(storedActivities)
        caught == plansThrow \/ activitiesThrow
    IN  [savedPlans |->
             IF Truthy(storedPlans) /\ ~plansThrow
             THEN JSONparse(storedPlans) ELSE <<>>,
         activityLog |->
             IF ~plansThrow /\ Truthy(storedActivities) /\ ~activitiesThrow
             THEN JSONparse(storedActivities) ELSE <<>>,
         characterGender |->
             IF ~caught /\ Truthy(storedCharacter)
             THEN storedCharacter[2] ELSE NoGender,
         \* localStorage.clear() in the catch block
         storage |-> IF caught THEN EmptyStorage ELSE store]

LoadEffect ==
    /\ phase = "boot"
    /\ phase' = "run"
    /\ savedPlans' = loaded(storage).savedPlans
    /\ activityLog' = loaded(storage).activityLog
    /\ characterGender' = loaded(storage).characterGender
    /\ storage' = loaded(storage).storage
    /\ UNCHANGED <<now, today, levelUpInfo, fitnessPlan, isLoading, error, pending, dash>>

-----------------------------------------------------------------------------
(* App handlers *)

NewSince(records) ==
    Cardinality({i \in 1..Len(records) : records[i].id >= SessionStart})

\* What the session has used up: its records, its open requests, its days.
SessionLoad ==
    NewSince(activityLog) + NewSince(savedPlans) + Len(pending) + (now - SessionStart)

\* Room for one more record of this session.
CanCreate ==
    /\ phase = "run"
    /\ SessionLoad < MaxSession

\* Variant: the level comparison is missing, every workout notifies.
handleLogActivityEveryWorkout(activity, store) ==
    LET newActivity == [id |-> now, date |-> today] @@ activity
        updatedLog == <<newActivity>> \o activityLog
        newLevel == calculateLevel(updatedLog).level
        levelUp == newActivity.type # WaterIntake
    IN  /\ levelUpInfo' =
               IF levelUp THEN [show |-> TRUE, newLevel |-> newLevel] ELSE levelUpInfo
        /\ activityLog' = updatedLog
        /\ storage' = setItem(store, "activityLog", stringifyActivities(updatedLog))

\* Variant: the entry type is not tested and the comparison is inclusive.
handleLogActivityAnyType(activity, store) ==
    LET oldLevel == calculateLevel(activityLog).level
        newActivity == [id |-> now, date |-> today] @@ activity
        updatedLog == <<newActivity>> \o activityLog
        newLevel == calculateLevel(updatedLog).level
        levelUp == newLevel >= oldLevel
    IN  /\ levelUpInfo' =
               IF levelUp THEN [show |-> TRUE, newLevel |-> newLevel] ELSE levelUpInfo
        /\ activityLog' = updatedLog
        /\ storage' = setItem(store, "activityLog", stringifyActivities(updatedLog))

\* Variant: the new entry replaces the newest entry of the log.
handleLogActivityReplacesNewest(activity, store) ==
    LET oldLevel == calculateLevel(activityLog).level
        newActivity == [id |-> now, date |-> today] @@ activity
        updatedLog ==
            <<newActivity>> \o (IF activityLog = <<>> THEN <<>> ELSE Tail(activityLog))
        newLevel == calculateLevel(updatedLog).level
        levelUp == newLevel > oldLevel /\ newActivity.type # WaterIntake
    IN  /\ levelUpInfo' =
               IF levelUp THEN [show |-> TRUE, newLevel |-> newLevel] ELSE levelUpInfo
        /\ activityLog' = updatedLog
        /\ storage' = setItem(store, "activityLog", stringifyActivities(updatedLog))

\* handleLogActivity, started on a localStorage that holds `store`.
handleLogActivity(activity, store) ==
    LET oldLevel == calculateLevel(activityLog).level
        newActivity == [id |-> now, date |-> today] @@ activity
        updatedLog == <<newActivity>> \o activityLog
        newLevel == calculateLevel(updatedLog).level
        levelUp == newLevel > oldLevel /\ newActivity.type # WaterIntake
    IN  /\ activityLog' = updatedLog
        /\ levelUpInfo' =
               IF levelUp THEN [show |-> TRUE, newLevel |-> newLevel] ELSE levelUpInfo
        /\ storage' = setItem(store, "activityLog", stringifyActivities(updatedLog))

\* Variant: the map does not compare ids, every plan gets the day's flag.
updatedPlansForEveryPlan(plans, planId, day) ==
    [i \in 1..Len(plans) |-> [plans[i] EXCEPT !.completionStatus = @ \cup {day}]]

\* handleUpdatePlanCompletion: the plans after the map.
updatedPlansFor(plans, planId, day) ==
    [i \in 1..Len(plans) |->
        IF plans[i].id = planId
        THEN [plans[i] EXCEPT !.completionStatus = @ \cup {day}]
        ELSE plans[i]]

\* savedPlans.find(p => p.id === planId): the matching indices.
findPlan(plans, planId) == {i \in 1..Len(plans) : plans[i].id = planId}

CompletedNote(day) == <<"Completed planned workout for ", day, ".">>

\* The activity handleMarkComplete logs for a day of a plan.
plannedActivity(plan, day) ==
    [type |-> trim(splitParen0(workoutNameOf(plan, day))),
     duration |-> DEFAULT_DURATION,
     intensity |-> "Medium",
     notes |-> CompletedNote(day)]

\* Variant: completionStatus[day] is not consulted before the writes.
handleMarkCompleteUnchecked(planId, day) ==
    LET found == findPlan(savedPlans, planId)
    IN  IF found = {}
        THEN UNCHANGED vars
        ELSE LET plan == savedPlans[Min(found)]
                 updatedPlans == updatedPlansFor(savedPlans, planId, day)
             IN  /\ savedPlans' = updatedPlans
                 /\ handleLogActivity(
                        plannedActivity(plan, day),
                        setItem(storage, "fitnessPlans", stringifyPlans(updatedPlans)))
                 /\ UNCHANGED <<phase, now, today, characterGender, fitnessPlan,
                                isLoading, error, pending, dash>>

\* ProgressDashboard.handleMarkComplete
handleMarkComplete(planId, day) ==
    LET found == findPlan(savedPlans, planId)
    IN  IF found = {} \/ day \in savedPlans[Min(found)].completionStatus
        THEN UNCHANGED vars
        ELSE LET plan == savedPlans[Min(found)]
                 updatedPlans == updatedPlansFor(savedPlans, planId, day)
             IN  /\ savedPlans' = updatedPlans
                 /\ handleLogActivity(
                        plannedActivity(plan, day),
                        setItem(storage, "fitnessPlans", stringifyPlans(updatedPlans)))
                 /\ UNCHANGED <<phase, now, today, characterGender, fitnessPlan,
                                isLoading, error, pending, dash>>

\* The plan ids a caller can pass: those on screen and one that is not.
PlanIdInputs == {savedPlans[i].id : i \in 1..Len(savedPlans)} \cup {UnknownPlanId}

MarkComplete ==
    /\ CanCreate
    /\ \E planId \in PlanIdInputs, day \in CompletionDays :
          handleMarkComplete(planId, day)

\* ProgressDashboard.handleLogWater
handleLogWater(amount) ==
    /\ handleLogActivity([type |-> WaterIntake, amount |-> amount], storage)
    /\ UNCHANGED <<phase, now, today, savedPlans, characterGender, fitnessPlan,
                   isLoading, error, pending, dash>>

LogWater ==
    /\ CanCreate
    /\ \E amount \in quickAddAmounts : handleLogWater(amount)

\* ActivityTracker.handleSubmit
handleSubmit(formData) ==
    IF formData.type = <<>> \/ formData.duration = <<>>
    THEN UNCHANGED vars
    ELSE /\ handleLogActivity(
                [formData EXCEPT !.duration = Number(formData.duration)], storage)
         /\ UNCHANGED <<phase, now, today, savedPlans, characterGender, fitnessPlan,
                        isLoading, error, pending, dash>>

SubmitActivity ==
    /\ CanCreate
    /\ \E formData \in FormInputs : handleSubmit(formData)

handleSelectCharacter(gender) ==
    /\ characterGender' = gender
    /\ storage' = setItem(storage, "characterGender", <<"raw", gender>>)
    /\ UNCHANGED <<phase, now, today, savedPlans, activityLog, levelUpInfo,
                   fitnessPlan, isLoading, error, pending, dash>>

SelectCharacter ==
    /\ phase = "run"
    /\ \E gender \in CharacterGenders : handleSelectCharacter(gender)

\* Variant: the activity log is emptied in memory but its storage key is kept.
handleClearHistoryKeepsLogKey(confirmed) ==
    IF ~confirmed
    THEN UNCHANGED vars
    ELSE /\ savedPlans' = <<>>
         /\ activityLog' = <<>>
         /\ characterGender' = NoGender
         /\ storage' = [storage EXCEPT !["fitnessPlans"] = Null,
                                       !["characterGender"] = Null]
         /\ UNCHANGED <<phase, now, today, levelUpInfo, fitnessPlan, isLoading,
                        error, pending, dash>>

\* handleClearHistory; confirmed is the answer to window.confirm.
handleClearHistory(confirmed) ==
    IF ~confirmed
    THEN UNCHANGED vars
    ELSE /\ savedPlans' = <<>>
         /\ activityLog' = <<>>
         /\ characterGender' = NoGender
         /\ storage' = [storage EXCEPT !["fitnessPlans"] = Null,
                                       !["activityLog"] = Null,
                                       !["characterGender"] = Null]
         /\ UNCHANGED <<phase, now, today, levelUpInfo, fitnessPlan, isLoading,
                        error, pending, dash>>

ClearHistory ==
    /\ phase = "run"
    /\ \E confirmed \in BOOLEAN : handleClearHistory(confirmed)

\* LevelUpModal onClose; the modal is on screen only while
\* levelUpInfo.show && characterGender.
CloseLevelUp ==
    /\ phase = "run"
    /\ levelUpInfo.show
    /\ characterGender # NoGender
    /\ levelUpInfo' = [show |-> FALSE, newLevel |-> 0]
    /\ UNCHANGED <<phase, now, today, storage, savedPlans, activityLog,
                   characterGender, fitnessPlan, isLoading, error, pending, dash>>

handleStartOver ==
    /\ phase = "run"
    /\ fitnessPlan' = Null
    /\ error' = NoError
    /\ isLoading' = FALSE
    /\ UNCHANGED <<phase, now, today, storage, savedPlans, activityLog,
                   characterGender, levelUpInfo, pending, dash>>

-----------------------------------------------------------------------------
(* handleGeneratePlan: the part before the await, and its two continuations *)

Without(seq, i) == SubSeq(seq, 1, i - 1) \o SubSeq(seq, i + 1, Len(seq))

GenerateStart ==
    /\ CanCreate
    /\ \E data \in UserDatas :
          \* the continuation closes over this render's savedPlans
          pending' = Append(pending, [data |-> data, savedPlans |-> savedPlans])
    /\ isLoading' = TRUE
    /\ error' = NoError
    /\ fitnessPlan' = Null
    /\ UNCHANGED <<phase, now, today, storage, savedPlans, activityLog,
                   characterGender, levelUpInfo, dash>>

GenerateResolve ==
    /\ \E i \in 1..Len(pending), plan \in GeneratedPlans :
          LET newSavedPlan ==
                  [id |-> now, date |-> today, userData |-> pending[i].data,
                   plan |-> plan, completionStatus |-> {}]
              updatedPlans == <<newSavedPlan>> \o pending[i].savedPlans
          IN  /\ fitnessPlan' = <<plan>>
              /\ savedPlans' = updatedPlans
              /\ storage' = setItem(storage, "fitnessPlans", stringifyPlans(updatedPlans))
              /\ pending' = Without(pending, i)
    /\ isLoading' = FALSE
    /\ UNCHANGED <<phase, now, today, activityLog, characterGender, levelUpInfo, error, dash>>

\* Variant: the catch block also saves the plan list the call started with.
GenerateRejectSavesClosure ==
    /\ \E i \in 1..Len(pending) :
          /\ pending' = Without(pending, i)
          /\ savedPlans' = pending[i].savedPlans
          /\ storage' = setItem(storage, "fitnessPlans",
                                 stringifyPlans(pending[i].savedPlans))
    /\ error' = GenerationFailed
    /\ isLoading' = FALSE
    /\ UNCHANGED <<phase, now, today, activityLog, characterGender, levelUpInfo,
                   fitnessPlan, dash>>

\* Variant: the finally block is missing, a failed call leaves isLoading set.
GenerateRejectKeepsLoading ==
    /\ \E i \in 1..Len(pending) : pending' = Without(pending, i)
    /\ error' = GenerationFailed
    /\ UNCHANGED <<phase, now, today, storage, savedPlans, activityLog,
                   characterGender, levelUpInfo, fitnessPlan, isLoading, dash>>

\* generateFitnessPlan threw: the service failed, or JSON.parse of its text did.
GenerateReject ==
    /\ \E i \in 1..Len(pending) : pending' = Without(pending, i)
    /\ error' = GenerationFailed
    /\ isLoading' = FALSE
    /\ UNCHANGED <<phase, now, today, storage, savedPlans, activityLog,
                   characterGender, levelUpInfo, fitnessPlan, dash>>

-----------------------------------------------------------------------------
(* Time passing *)

\* The clock moves on to the next calendar day.
NextDay ==
    /\ phase = "run"
    /\ SessionLoad < MaxSession
    /\ now' = now + 1
    /\ today' = today + 1
    /\ UNCHANGED <<phase, storage, savedPlans, activityLog, characterGender,
                   levelUpInfo, fitnessPlan, isLoading, error, pending, dash>>

-----------------------------------------------------------------------------
(* The application *)

Next ==
    \/ LoadEffect
    \/ SelectCharacter
    \/ GenerateStart
    \/ GenerateResolve
    \/ GenerateReject
    \/ handleStartOver
    \/ SubmitActivity
    \/ LogWater
    \/ MarkComplete
    \/ ClearHistory
    \/ CloseLevelUp
    \/ NextDay

Spec == Init /\ [][Next]_vars

\* The same program when the history is never cleared.
NextNoClear ==
    \/ LoadEffect
    \/ SelectCharacter
    \/ GenerateStart
    \/ GenerateResolve
    \/ GenerateReject
    \/ handleStartOver
    \/ SubmitActivity
    \/ LogWater
    \/ MarkComplete
    \/ CloseLevelUp
    \/ NextDay

SpecNoClear == Init /\ [][NextNoClear]_vars

-----------------------------------------------------------------------------
(* Leveling scenario: from an empty store, workouts logged day after day *)

WorkoutDates(log) ==
    {log[i].date : i \in {j \in 1..Len(log) : log[j].type # WaterIntake}}

\* No plan and no entry is stored; a character may have been chosen.
InitLevelUp ==
    /\ storage \in {EmptyStorage, Stored(Null, Null, <<"raw", "Male">>)}
    /\ Constructed

\* A workout is logged on a day without one, or as one of the few repeats.
ScenarioWorkout ==
    /\ phase = "run"
    /\ (today \in WorkoutDates(activityLog)) =>
           (Len(activityLog) - Cardinality(WorkoutDates(activityLog)) < ScenarioRepeats)
    /\ handleSubmit(Form(Running, <<3, 0>>))

ScenarioNextDay ==
    /\ phase = "run"
    /\ today < SessionStart + ScenarioDays - 1
    /\ now' = now + 1
    /\ today' = today + 1
    /\ UNCHANGED <<phase, storage, savedPlans, activityLog, characterGender,
                   levelUpInfo, fitnessPlan, isLoading, error, pending, dash>>

NextLevelUp ==
    \/ LoadEffect
    \/ ScenarioWorkout
    \/ ScenarioNextDay
    \/ CloseLevelUp

SpecLevelUp == InitLevelUp /\ [][NextLevelUp]_vars

-----------------------------------------------------------------------------
(* Render family: the dashboard rendered over logs and plan histories that  *)
(* earlier sessions stored                                                  *)

StoredEntry(kind, d, i) ==
    IF kind = "R"
    THEN [id |-> 10 * d + i, date |-> d, type |-> Running, duration |-> 30,
          intensity |-> "Medium", notes |-> <<>>]
    ELSE [id |-> 10 * d + i, date |-> d, type |-> WaterIntake,
          amount |-> IF kind = "W250" THEN 250 ELSE 500]

\* What one calendar day contributes to a stored log.
DayPatterns ==
    {<<>>, <<"R">>, <<"R", "R">>, <<"W250">>, <<"W500", "R">>, <<"W250", "R", "W500">>}

DashDates == (SessionStart - DashDays + 1)..SessionStart

RECURSIVE LogOfDays(_, _)
LogOfDays(f, d) ==
    IF d \notin DashDates
    THEN <<>>
    ELSE [i \in 1..Len(f[d]) |-> StoredEntry(f[d][i], d, i)] \o LogOfDays(f, d - 1)

Reverse(seq) == [i \in 1..Len(seq) |-> seq[Len(seq) + 1 - i]]

DashLogs ==
    LET newestFirst == {LogOfDays(f, SessionStart) : f \in [DashDates -> DayPatterns]}
    IN  newestFirst \cup {Reverse(log) : log \in newestFirst}

PlanNoGoal == [workoutPlan |-> [Monday |-> <<Squats>>, Sunday |-> <<>>]]

StoredPlan(i, weight, plan) ==
    [id |-> i, date |-> i, userData |-> [weight |-> weight], plan |-> plan,
     completionStatus |-> {}]

DashPlanLists ==
    {<<>>,
     <<StoredPlan(1, 80, PlanA)>>,
     <<StoredPlan(1, 80, PlanB)>>,
     <<StoredPlan(1, 80, PlanNoGoal)>>,
     <<StoredPlan(2, 79, PlanA), StoredPlan(1, 80, PlanB)>>,
     <<StoredPlan(2, 79, PlanB), StoredPlan(1, 80, PlanA)>>}

ChartWeights == {79, 80}

\* A plan saved as the id-th of its history, dated `date`.
ChartPlan(id, date, weight) ==
    [id |-> id, date |-> date, userData |-> [weight |-> weight], plan |-> PlanA,
     completionStatus |-> {}]

\* As many dates as plans, so that every order of dates and every tie occurs.
ChartDates == 1..MaxChartPlans

\* Histories of up to MaxChartPlans plans, most recently saved first, of any
\* dates and weights.
ChartPlanLists ==
    UNION {{[i \in 1..n |-> ChartPlan(n + 1 - i, f[i][1], f[i][2])] :
               f \in [1..n -> ChartDates \X ChartWeights]} : n \in 0..MaxChartPlans}

DashStorages ==
    {Stored(Null, stringifyActivities(log), <<"raw", "Male">>) : log \in DashLogs}
    \cup {Stored(stringifyPlans(plans), Null, <<"raw", "Female">>) : plans \in DashPlanLists}

ChartStorages ==
    {Stored(stringifyPlans(plans), Null, <<"raw", "Female">>) : plans \in ChartPlanLists}

InitDash ==
    /\ (storage \in DashStorages \/ storage \in ChartStorages)
    /\ Constructed

\* A render of ProgressDashboard with the current props.
RenderDashboard ==
    /\ phase = "run"
    /\ dash' = ProgressDashboard(savedPlans, activityLog, today)
    /\ UNCHANGED <<phase, now, today, storage, savedPlans, activityLog,
                   characterGender, levelUpInfo, fitnessPlan, isLoading, error,
                   pending>>

NextDash ==
    \/ LoadEffect
    \/ RenderDashboard

SpecDash == InitDash /\ [][NextDash]_vars

-----------------------------------------------------------------------------
(* One click delivered twice: handleMarkComplete invoked a second time       *)
(* before the re-render, so that both invocations run the closures of the    *)
(* same render                                                               *)

\* The four values handleMarkComplete can write.
Written == [savedPlans |-> savedPlans, activityLog |-> activityLog,
            storage |-> storage, levelUpInfo |-> levelUpInfo]

\* One invocation of the handleMarkComplete of the current render (whose
\* props are the current savedPlans and activityLog) at millisecond `stamp`,
\* when the setters and localStorage already hold `written`.
invokeMarkComplete(written, planId, day, stamp) ==
    LET found == findPlan(savedPlans, planId)
    IN  IF found = {} \/ day \in savedPlans[Min(found)].completionStatus
        THEN written
        ELSE LET plan == savedPlans[Min(found)]
                 \* handleUpdatePlanCompletion
                 updatedPlans == updatedPlansFor(savedPlans, planId, day)
                 \* handleLogActivity
                 oldLevel == calculateLevel(activityLog).level
                 newActivity ==
                     [id |-> stamp, date |-> today] @@ plannedActivity(plan, day)
                 updatedLog == <<newActivity>> \o activityLog
                 newLevel == calculateLevel(updatedLog).level
                 levelUp == newLevel > oldLevel /\ newActivity.type # WaterIntake
             IN  [savedPlans |-> updatedPlans,
                  activityLog |-> updatedLog,
                  storage |->
                      setItem(setItem(written.storage, "fitnessPlans",
                                      stringifyPlans(updatedPlans)),
                              "activityLog", stringifyActivities(updatedLog)),
                  levelUpInfo |->
                      IF levelUp THEN [show |-> TRUE, newLevel |-> newLevel]
                      ELSE written.levelUpInfo]

firstInvocation(planId, day) == invokeMarkComplete(Written, planId, day, now)

\* The second invocation runs `gap` milliseconds after the first.
secondInvocation(planId, day, gap) ==
    invokeMarkComplete(firstInvocation(planId, day), planId, day, now + gap)

handleMarkCompleteTwice(planId, day, gap) ==
    LET after == secondInvocation(planId, day, gap)
    IN  /\ savedPlans' = after.savedPlans
        /\ activityLog' = after.activityLog
        /\ storage' = after.storage
        /\ levelUpInfo' = after.levelUpInfo
        /\ now' = now + gap
        /\ UNCHANGED <<phase, today, characterGender, fitnessPlan, isLoading,
                       error, pending, dash>>

ClickGaps == {0, 1}

DoubleMarkComplete ==
    /\ CanCreate
    /\ \E planId \in PlanIdInputs, day \in CompletionDays, gap \in ClickGaps :
          handleMarkCompleteTwice(planId, day, gap)

InitDoubleClick ==
    /\ storage \in {Stored(stringifyPlans(<<PriorPlan>>), Null, <<"raw", "Male">>),
                     Stored(stringifyPlans(<<PriorPlan>>),
                            stringifyActivities(PriorLog), <<"raw", "Male">>)}
    /\ Constructed

NextDoubleClick ==
    \/ LoadEffect
    \/ DoubleMarkComplete
    \/ LogWater
    \/ CloseLevelUp

SpecDoubleClick == InitDoubleClick /\ [][NextDoubleClick]_vars

-----------------------------------------------------------------------------
(* The generator view: handlers reachable only through what is rendered *)

\* Variant: isLoading is not tested before the form is returned.
renderGeneratorContentNoSpinner ==
    IF error # NoError THEN "ErrorMessage"
    ELSE IF fitnessPlan # Null THEN "PlanDisplay"
    ELSE "UserInputForm"

\* The component renderGeneratorContent returns.
renderGeneratorContent ==
    IF isLoading THEN "LoadingSpinner"
    ELSE IF error # NoError THEN "ErrorMessage"
    ELSE IF fitnessPlan # Null THEN "PlanDisplay"
    ELSE "UserInputForm"

\* UserInputForm onSubmit
SubmitPlanForm ==
    /\ renderGeneratorContent = "UserInputForm"
    /\ GenerateStart

\* ErrorMessage onRetry, PlanDisplay onBack
RetryOrBack ==
    /\ renderGeneratorContent \in {"ErrorMessage", "PlanDisplay"}
    /\ handleStartOver

NextUI ==
    \/ LoadEffect
    \/ SubmitPlanForm
    \/ GenerateResolve
    \/ GenerateReject
    \/ RetryOrBack
    \/ LogWater
    \/ MarkComplete
    \/ ClearHistory
    \/ NextDay

SpecUI == Init /\ [][NextUI]_vars

\* A service call that returns lets its continuation run.
SpecUIFair == Init /\ [][NextUI]_vars /\ WF_vars(GenerateResolve \/ GenerateReject)

-----------------------------------------------------------------------------
(* One handleMarkComplete call cut short: the page goes away between two
   localStorage writes and only localStorage survives *)

\* Variant: the activity log is written before the plans.
markCompleteWritesLogFirst(planId, day) ==
    LET found == findPlan(savedPlans, planId)
    IN  IF found = {} \/ day \in savedPlans[Min(found)].completionStatus
        THEN <<>>
        ELSE LET plan == savedPlans[Min(found)]
                 updatedPlans == updatedPlansFor(savedPlans, planId, day)
                 newActivity ==
                     [id |-> now, date |-> today] @@ plannedActivity(plan, day)
                 updatedLog == <<newActivity>> \o activityLog
                 afterLog ==
                     setItem(storage, "activityLog", stringifyActivities(updatedLog))
             IN  <<afterLog,
                   setItem(afterLog, "fitnessPlans", stringifyPlans(updatedPlans))>>

\* The contents of localStorage after each setItem of one handleMarkComplete
\* call, in program order: handleUpdatePlanCompletion writes the plans, then
\* handleLogActivity writes the log.
markCompleteWrites(planId, day) ==
    LET found == findPlan(savedPlans, planId)
    IN  IF found = {} \/ day \in savedPlans[Min(found)].completionStatus
        THEN <<>>
        ELSE LET plan == savedPlans[Min(found)]
                 updatedPlans == updatedPlansFor(savedPlans, planId, day)
                 newActivity ==
                     [id |-> now, date |-> today] @@ plannedActivity(plan, day)
                 updatedLog == <<newActivity>> \o activityLog
                 afterPlans ==
                     setItem(storage, "fitnessPlans", stringifyPlans(updatedPlans))
             IN  <<afterPlans,
                   setItem(afterPlans, "activityLog", stringifyActivities(updatedLog))>>

\* The page is gone after `done` of the writes of a handleMarkComplete call;
\* the next page starts from its constructor with what localStorage holds.
interruptedMarkComplete(planId, day, done) ==
    /\ storage' = markCompleteWrites(planId, day)[done]
    /\ phase' = "boot"
    /\ savedPlans' = <<>>
    /\ activityLog' = <<>>
    /\ characterGender' = NoGender
    /\ levelUpInfo' = [show |-> FALSE, newLevel |-> 0]
    /\ fitnessPlan' = Null
    /\ isLoading' = FALSE
    /\ error' = NoError
    /\ pending' = <<>>
    /\ dash' = NotRendered
    /\ UNCHANGED <<now, today>>

InterruptedMarkComplete ==
    /\ CanCreate
    /\ \E planId \in PlanIdInputs, day \in CompletionDays :
          \E done \in 1..Len(markCompleteWrites(planId, day)) :
             interruptedMarkComplete(planId, day, done)

InitInterrupt == InitDoubleClick

NextInterrupt ==
    \/ LoadEffect
    \/ MarkComplete
    \/ InterruptedMarkComplete
    \/ LogWater

SpecInterrupt == InitInterrupt /\ [][NextInterrupt]_vars

-----------------------------------------------------------------------------
(* Properties *)

WorkoutIndices(log) == {i \in 1..Len(log) : log[i].type # WaterIntake}
ActiveDates(log) == {log[i].date : i \in WorkoutIndices(log)}

\* C1: for every activity log, of any length, order and mix of workout and
\* water entries, the rendered level info has activeDays = the number of
\* distinct dates among the entries whose type is not 'Water Intake',
\* level = floor(activeDays / 5) + 1, progress = activeDays mod 5 and
\* xpForNextLevel = 5, however many workouts share a date.
C1_LevelFormula ==
    dash.rendered =>
        LET d == Cardinality(ActiveDates(activityLog))
        IN  dash.levelInfo = [level |-> (d \div 5) + 1, progress |-> d % 5,
                              activeDays |-> d, xpForNextLevel |-> 5]

\* C1 witness: a rendered log of more than five workouts, on five distinct
\* dates, with water entries in between, shown as level 2 with progress 0.
C1_Witness ==
    /\ dash.rendered
    /\ dash.levelInfo.level = 2
    /\ dash.levelInfo.activeDays = 5
    /\ Cardinality(WorkoutIndices(activityLog)) > 5
    /\ Len(activityLog) > Cardinality(WorkoutIndices(activityLog))

\* C2: from any reachable state, logging a water-intake entry with the quick-add
\* buttons (handleLogWater) leaves the derived level and activeDays as they were.
C2_WaterKeepsLevel ==
    [][(\E amount \in quickAddAmounts : handleLogWater(amount)) =>
         /\ calculateLevel(activityLog').level = calculateLevel(activityLog).level
         /\ calculateLevel(activityLog').activeDays
                = calculateLevel(activityLog).activeDays]_vars

\* C2 witness: water was logged in this session on a day without any workout,
\* one workout day short of level 2.
C2_Witness ==
    /\ \E i \in 1..Len(activityLog) :
          /\ activityLog[i].type = WaterIntake
          /\ activityLog[i].id >= SessionStart
          /\ activityLog[i].date \notin ActiveDates(activityLog)
    /\ calculateLevel(activityLog).activeDays = DAYS_PER_LEVEL - 1

FirstMatch(planId) == savedPlans[Min(findPlan(savedPlans, planId))]
Known(planId) == findPlan(savedPlans, planId) # {}
Done(planId, day) == Known(planId) /\ day \in FirstMatch(planId).completionStatus
Fresh(planId, day) == Known(planId) /\ day \notin FirstMatch(planId).completionStatus

\* C3: completeDay(p, day) on a saved plan and a day not yet completed adds
\* exactly one entry to the activity log and sets completionStatus[day]; called
\* again in the state it leaves, it changes neither the plan history nor the
\* activity log (nor storage).
C3_CompleteDayIdempotent ==
    [][\A planId \in PlanIdInputs, day \in CompletionDays :
         handleMarkComplete(planId, day) =>
            /\ Fresh(planId, day) =>
                  /\ Len(activityLog') = Len(activityLog) + 1
                  /\ Tail(activityLog') = activityLog
                  /\ Done(planId, day)'
            /\ Done(planId, day) =>
                  UNCHANGED <<savedPlans, activityLog, storage>>]_vars

IsAutoLog(entry, day) == Has(entry, "notes") /\ entry.notes = CompletedNote(day)

\* C3 witness: Monday of a saved plan is completed and the log holds exactly
\* one entry logged for it.
C3_Witness ==
    /\ \E i \in 1..Len(savedPlans) : "Monday" \in savedPlans[i].completionStatus
    /\ Cardinality({j \in 1..Len(activityLog) : IsAutoLog(activityLog[j], "Monday")}) = 1

\* C4: completeDay with a planId that is not in the plan history, or with a day
\* that is not one of the 7 weekday names, leaves the activity log and the plan
\* history unchanged, in memory and in storage.
C4_InvalidArgumentsNoop ==
    [][\A planId \in PlanIdInputs, day \in CompletionDays :
         (handleMarkComplete(planId, day)
            /\ (~Known(planId) \/ day \notin DAYS_OF_WEEK)) =>
               UNCHANGED <<activityLog, savedPlans, storage>>]_vars

\* C5: starting from an empty log and logging workouts over successive days,
\* an append sets the level-up notification exactly when it brings the number
\* of distinct workout dates to 5, 10, 15, ...; the notification carries the
\* level computed after the append (2 at 5 days, 3 at 10 days); every other
\* append leaves the notification as it was.
C5_LevelUpExactlyAtMultiples ==
    [][Len(activityLog') = Len(activityLog) + 1 =>
         LET before == Cardinality(ActiveDates(activityLog))
             after == Cardinality(ActiveDates(activityLog'))
         IN  IF after # before /\ after % 5 = 0
             THEN /\ levelUpInfo' = [show |-> TRUE, newLevel |-> (after \div 5) + 1]
                  /\ levelUpInfo' # levelUpInfo
             ELSE levelUpInfo' = levelUpInfo]_vars

\* C5 witness: the tenth distinct workout date has just been logged, after a
\* repeated workout on an earlier date, and the notification shows level 3.
C5_Witness ==
    /\ levelUpInfo = [show |-> TRUE, newLevel |-> 3]
    /\ Cardinality(ActiveDates(activityLog)) = 10
    /\ Len(activityLog) = 11
    /\ activityLog[1].date # activityLog[2].date

\* C6: appending a water-intake entry never sets the level-up notification.
C6_WaterNeverNotifies ==
    [][(/\ Len(activityLog') = Len(activityLog) + 1
        /\ Tail(activityLog') = activityLog
        /\ activityLog'[1].type = WaterIntake) =>
          levelUpInfo' = levelUpInfo]_vars

\* C6 witness: the newest entry is a water entry of this session, the log is
\* one workout day short of level 2, and no notification is showing.
C6_Witness ==
    /\ activityLog # <<>>
    /\ activityLog[1].type = WaterIntake
    /\ activityLog[1].id >= SessionStart
    /\ Cardinality(ActiveDates(activityLog)) = DAYS_PER_LEVEL - 1
    /\ ~levelUpInfo.show

\* C7: if a persisted value cannot be deserialized at startup, all persisted
\* state is removed from storage and the plan history, the activity log and the
\* character profile all start empty in memory, also a store whose own value
\* was read before the failing one.
C7_CorruptLoadStartsEmpty ==
    [][(LoadEffect /\ (Throws(storage["fitnessPlans"]) \/ Throws(storage["activityLog"]))) =>
          /\ storage' = EmptyStorage
          /\ savedPlans' = <<>>
          /\ activityLog' = <<>>
          /\ characterGender' = NoGender]_vars

Stores == <<savedPlans, activityLog, characterGender>>

\* C8: after any completed mutation, running the startup load against the
\* current storage yields an activity log, plan history and character profile
\* equal to the values held in memory.
C8_ReloadRoundTrip ==
    [][(phase = "run" /\ <<Stores, storage>>' # <<Stores, storage>>) =>
          /\ loaded(storage').savedPlans = savedPlans'
          /\ loaded(storage').activityLog = activityLog'
          /\ loaded(storage').characterGender = characterGender']_vars

RECURSIVE WaterOn(_, _)
WaterOn(log, day) ==
    IF log = <<>>
    THEN 0
    ELSE WaterOn(Tail(log), day)
         + (IF Head(log).type = WaterIntake /\ Head(log).date = day
               /\ Has(Head(log), "amount")
            THEN Head(log).amount ELSE 0)

\* C9: today's water intake is the sum of amount over exactly the entries of
\* type 'Water Intake' dated today; workouts and water of other days add
\* nothing, and an empty log gives 0.
C9_TodaysWater ==
    dash.rendered =>
        /\ dash.todaysWaterIntake = WaterOn(activityLog, today)
        /\ activityLog = <<>> => dash.todaysWaterIntake = 0

\* C9 witness: two water entries and a workout today, water on another day
\* too, and the dashboard shows today's 750 ml.
C9_Witness ==
    /\ dash.rendered
    /\ dash.todaysWaterIntake = 750
    /\ \E i, j \in 1..Len(activityLog) :
          /\ activityLog[i].type = WaterIntake /\ activityLog[i].date # today
          /\ activityLog[j].type # WaterIntake /\ activityLog[j].date = today

\* C10 as stated: the daily water goal is 1000 times the recommendedWaterIntake
\* of the most recently saved plan whenever the plan history is non-empty, and
\* the default 3000 only when no plan exists.
C10_GoalFromLatestPlan ==
    dash.rendered =>
        IF savedPlans = <<>>
        THEN dash.waterGoal = DEFAULT_WATER_GOAL
        ELSE /\ Has(savedPlans[1].plan, "recommendedWaterIntake")
             /\ dash.waterGoal = 1000 * savedPlans[1].plan.recommendedWaterIntake

\* C10 amended: the daily water goal is 1000 times the recommendedWaterIntake
\* of the most recently saved plan when the history is non-empty and that
\* value is a number other than 0; it is the default 3000 when no plan exists
\* and also when the most recent plan's recommendedWaterIntake is 0 or absent.
C10_GoalFromLatestPlanOrDefault ==
    dash.rendered =>
        IF /\ savedPlans # <<>>
           /\ Has(savedPlans[1].plan, "recommendedWaterIntake")
           /\ savedPlans[1].plan.recommendedWaterIntake # 0
        THEN dash.waterGoal = 1000 * savedPlans[1].plan.recommendedWaterIntake
        ELSE dash.waterGoal = DEFAULT_WATER_GOAL

\* C10 witness: two plans are saved, the most recent recommending 4 litres and
\* the older one 0, and the dashboard shows a goal of 4000 ml.
C10_Witness ==
    /\ dash.rendered
    /\ Len(savedPlans) = 2
    /\ savedPlans[1].plan.recommendedWaterIntake = 4
    /\ savedPlans[2].plan.recommendedWaterIntake = 0
    /\ dash.waterGoal = 4000

\* C11: completeDay for a weekday whose workout list is empty or missing still
\* succeeds: it sets completionStatus[day] and prepends one entry of type
\* 'Planned Workout', duration 60, intensity Medium; for a day with exercises
\* the entry also has duration 60 and intensity Medium.
C11_RestDayCompletes ==
    [][\A planId \in PlanIdInputs, day \in CompletionDays \cap DAYS_OF_WEEK :
         (Fresh(planId, day) /\ handleMarkComplete(planId, day)) =>
            LET wp == FirstMatch(planId).plan.workoutPlan
                entry == activityLog'[1]
            IN  /\ Done(planId, day)'
                /\ Len(activityLog') = Len(activityLog) + 1
                /\ Tail(activityLog') = activityLog
                /\ entry.duration = 60
                /\ entry.intensity = "Medium"
                /\ (~Has(wp, day) \/ wp[day] = <<>>) => entry.type = PlannedWorkout]_vars

\* C11 witness: Sunday (empty list) and Tuesday (no list) of a saved plan are
\* both completed, each logged as a 'Planned Workout'.
C11_Witness ==
    /\ \E i \in 1..Len(savedPlans) :
          {"Sunday", "Tuesday"} \subseteq savedPlans[i].completionStatus
    /\ \A day \in {"Sunday", "Tuesday"} :
          \E j \in 1..Len(activityLog) :
             /\ IsAutoLog(activityLog[j], day)
             /\ activityLog[j].type = PlannedWorkout
             /\ activityLog[j].duration = 60

SeriesPoints(labels, data) == {<<labels[k], data[k]>> : k \in 1..Len(labels)}
PlanPoint(p) == <<p.date, p.userData.weight>>

\* C12: the weight series has exactly one point per saved plan, in ascending
\* order of plan date whatever the order in which the plans were saved, and
\* each point carries the weight of that plan's profile snapshot.
C12_WeightSeries ==
    dash.rendered =>
        LET labels == dash.chartData.labels
            data == dash.chartData.data
            n == Len(savedPlans)
        IN  /\ Len(labels) = n /\ Len(data) = n
            /\ \A i, j \in 1..n : i < j => labels[i] <= labels[j]
            /\ \A pt \in SeriesPoints(labels, data)
                          \cup {PlanPoint(savedPlans[i]) : i \in 1..n} :
                  Cardinality({k \in 1..n : <<labels[k], data[k]>> = pt})
                     = Cardinality({i \in 1..n : PlanPoint(savedPlans[i]) = pt})

\* C12 witness: three plans of three dates, the one dated in the middle saved
\* last and the earliest one saved first, charted earliest date first with each
\* plan's own weight.
C12_Witness ==
    /\ dash.rendered
    /\ Len(savedPlans) = 3
    /\ savedPlans[3].date < savedPlans[1].date
    /\ savedPlans[1].date < savedPlans[2].date
    /\ savedPlans[3].userData.weight = 80
    /\ savedPlans[1].userData.weight = 79
    /\ dash.chartData.labels
          = <<savedPlans[3].date, savedPlans[1].date, savedPlans[2].date>>
    /\ dash.chartData.data
          = <<80, 79, savedPlans[2].userData.weight>>

\* C13: when two saved plans have the same date, the weight series lists the
\* plan saved earlier (the smaller id) before the plan saved later.
C13_TiesInInsertionOrder ==
    dash.rendered =>
        LET chart == dash.sortedPlansForChart
        IN  \A i, j \in 1..Len(chart) :
               (i < j /\ chart[i].date = chart[j].date) => chart[i].id < chart[j].id

C15_SaveKeepsHistory ==
    [][GenerateResolve =>
          /\ Len(savedPlans') = Len(savedPlans) + 1
          /\ Tail(savedPlans') = savedPlans
          /\ savedPlans'[1].date = today
          /\ savedPlans'[1].completionStatus = {}
          /\ savedPlans'[1].plan \in GeneratedPlans
          /\ savedPlans'[1].userData \in UserDatas
          /\ storage'["fitnessPlans"] = stringifyPlans(savedPlans')]_vars

\* C16: after a confirmed clearAllHistory the activity log and the plan history
\* are empty and the character profile is unset in memory, the three storage
\* keys are absent, and the derived level is 1 with activeDays 0.
C16_ClearEmptiesEverything ==
    [][handleClearHistory(TRUE) =>
          /\ activityLog' = <<>>
          /\ savedPlans' = <<>>
          /\ characterGender' = NoGender
          /\ \A key \in StorageKeys : storage'[key] = Null
          /\ calculateLevel(activityLog').level = 1
          /\ calculateLevel(activityLog').activeDays = 0]_vars

\* C16 witness: everything is empty in memory and in storage after the session
\* had reached a level-up, which takes a log of five workout days.
C16_Witness ==
    /\ phase = "run"
    /\ levelUpInfo.show
    /\ activityLog = <<>>
    /\ savedPlans = <<>>
    /\ characterGender = NoGender
    /\ storage = EmptyStorage

\* The plan history a reload would read from a localStorage holding `store`.
StoredPlans(store) ==
    IF Truthy(store["fitnessPlans"]) /\ ~Throws(store["fitnessPlans"])
    THEN JSONparse(store["fitnessPlans"])
    ELSE <<>>

StaysDone(before, after) ==
    \A i \in 1..Len(before) :
       \A day \in before[i].completionStatus :
          \E j \in 1..Len(after) :
             /\ after[j].id = before[i].id
             /\ day \in after[j].completionStatus

\* C17: once completionStatus[day] of a saved plan is true it stays true, in
\* memory and in storage, across every step other than a full history clear,
\* including the completion of a plan generation that began before the day was
\* marked.
C17_CompletionNeverReverts ==
    [][(phase = "run" /\ ~handleClearHistory(TRUE)) =>
          /\ StaysDone(savedPlans, savedPlans')
          /\ StaysDone(StoredPlans(storage), StoredPlans(storage'))]_vars

\* C18: when a plan generation completes successfully after another request,
\* outstanding at the same time, has added its record, the plan history holds
\* both new records on top of every record it held before, in memory and in
\* storage.
C18_ConcurrentBothSaved ==
    [][\A i \in 1..Len(pending) :
          (/\ GenerateResolve
           /\ pending' = Without(pending, i)
           /\ savedPlans # <<>>
           /\ Tail(savedPlans) = pending[i].savedPlans
           /\ savedPlans[1].id >= SessionStart
           /\ savedPlans'[1].userData = pending[i].data) =>
              /\ Len(savedPlans') = Len(pending[i].savedPlans) + 2
              /\ SubSeq(savedPlans', 3, Len(savedPlans')) = pending[i].savedPlans
              /\ storage'["fitnessPlans"] = stringifyPlans(savedPlans')]_vars

\* C19: when completeDay(p, day) is invoked twice for one click, both
\* invocations seeing the same snapshot of the plan history and the activity
\* log, the second invocation writes nothing: memory and storage are as the
\* first invocation left them, and the log has exactly one new entry.
C19_SecondInvocationNoEffect ==
    [][\A planId \in PlanIdInputs, day \in CompletionDays, gap \in ClickGaps :
          (Fresh(planId, day) /\ handleMarkCompleteTwice(planId, day, gap)) =>
             /\ savedPlans' = firstInvocation(planId, day).savedPlans
             /\ activityLog' = firstInvocation(planId, day).activityLog
             /\ storage' = firstInvocation(planId, day).storage
             /\ Len(activityLog') = Len(activityLog) + 1]_vars

\* C20: no entry with a non-positive duration or a non-positive amount is ever
\* added to the activity log; a manual submission whose duration is 0 is
\* rejected and leaves the log and storage unchanged.
C20_NoNonPositiveEntries ==
    [][/\ (Len(activityLog') = Len(activityLog) + 1 /\ Tail(activityLog') = activityLog) =>
            /\ Has(activityLog'[1], "duration") => activityLog'[1].duration > 0
            /\ Has(activityLog'[1], "amount") => activityLog'[1].amount > 0
       /\ \A formData \in FormInputs :
            (/\ handleSubmit(formData)
             /\ formData.duration # <<>>
             /\ Number(formData.duration) <= 0) =>
                UNCHANGED <<activityLog, storage>>]_vars


\* A water entry carries an amount and neither duration nor intensity; any
\* other entry carries duration and intensity and no amount.
WellShaped(entry) ==
    IF entry.type = WaterIntake
    THEN Has(entry, "amount") /\ ~Has(entry, "duration") /\ ~Has(entry, "intensity")
    ELSE Has(entry, "duration") /\ Has(entry, "intensity") /\ ~Has(entry, "amount")

\* C21: in every reachable state every activity log entry is either a water
\* entry with an amount and no duration or intensity, or a workout entry with
\* duration and intensity and no amount, whichever of the manual form, the
\* water quick-add and handleMarkComplete created it.
C21_EntryShape ==
    \A i \in 1..Len(activityLog) : WellShaped(activityLog[i])


\* The step put exactly one entry, dated today, in front of the log.
AddedOne ==
    /\ Len(activityLog') = Len(activityLog) + 1
    /\ Tail(activityLog') = activityLog
    /\ Head(activityLog').date = today

\* C22: the activity log is append-only. Every step other than a confirmed
\* clear keeps every entry with identical fields and in the same order, and
\* each log operation (form submit that passes the guard, water quick-add,
\* handleMarkComplete on a known plan and an unset day) adds exactly one
\* entry dated today at the front.
C22_LogAppendOnly ==
    [][phase = "run" =>
         /\ ~handleClearHistory(TRUE) => (activityLog' = activityLog \/ AddedOne)
         /\ \A amount \in quickAddAmounts : handleLogWater(amount) => AddedOne
         /\ \A formData \in FormInputs :
               (formData.type # <<>> /\ formData.duration # <<>> /\ handleSubmit(formData))
                   => AddedOne
         /\ \A planId \in PlanIdInputs, day \in CompletionDays :
               (Fresh(planId, day) /\ handleMarkComplete(planId, day)) => AddedOne]_vars

\* Two entries were added in this session on top of a loaded log, which is
\* still there unchanged behind them.
C22_Witness ==
    /\ Len(activityLog) = Len(PriorLog) + 2
    /\ SubSeq(activityLog, 3, Len(activityLog)) = PriorLog
    /\ activityLog[1].id >= SessionStart
    /\ activityLog[2].id >= SessionStart
    /\ activityLog[1].type = WaterIntake
    /\ activityLog[2].type # WaterIntake


\* No two records of the list carry the same id.
DistinctIds(records) ==
    \A i, j \in 1..Len(records) : records[i].id = records[j].id => i = j

\* C23: in every reachable state the ids of the activity log entries are
\* pairwise distinct and so are the ids of the saved plans, also when two
\* records are created within one millisecond.
C23_IdsDistinct ==
    DistinctIds(activityLog) /\ DistinctIds(savedPlans)


StoredLog(store) ==
    IF Truthy(store["activityLog"]) /\ ~Throws(store["activityLog"])
    THEN JSONparse(store["activityLog"])
    ELSE <<>>

\* localStorage holds an entry auto-logged for the day / a plan with the day's
\* flag set.
LogStoredFor(store, day) ==
    \E i \in 1..Len(StoredLog(store)) : IsAutoLog(StoredLog(store)[i], day)

FlagStoredFor(store, day) ==
    \E i \in 1..Len(StoredPlans(store)) : day \in StoredPlans(store)[i].completionStatus

\* C24: handleMarkComplete persists the completion flag before the auto-logged
\* entry. After each single write of a call, and so wherever an interruption
\* leaves localStorage, it never holds the entry logged for a day while the
\* plan's completionStatus[day] is unset; the flag may be there without the
\* entry.
C24_FlagBeforeActivity ==
    /\ \A day \in CompletionDays : LogStoredFor(storage, day) => FlagStoredFor(storage, day)
    /\ phase = "run" =>
          \A planId \in PlanIdInputs, day \in CompletionDays :
             \A done \in 1..Len(markCompleteWrites(planId, day)) :
                LET store == markCompleteWrites(planId, day)[done]
                IN  /\ LogStoredFor(store, day) => FlagStoredFor(store, day)
                    /\ done = 1 => FlagStoredFor(store, day) /\ ~LogStoredFor(store, day)

\* An interruption between the two writes has left Monday's flag in
\* localStorage without the logged activity.
C24_Witness ==
    /\ phase = "boot"
    /\ FlagStoredFor(storage, "Monday")
    /\ ~LogStoredFor(storage, "Monday")


AutoLogged(log) ==
    {i \in 1..Len(log) : \E day \in CompletionDays : IsAutoLog(log[i], day)}

CompletedPairs(plans) ==
    SumSeq([i \in 1..Len(plans) |-> Cardinality(plans[i].completionStatus)])

\* C25: in every quiescent state (no generation outstanding) reached without
\* a history clear, the number of auto-logged entries in the activity log
\* equals the number of (plan, day) pairs whose completionStatus is true,
\* whatever the interleaving of handleMarkComplete, manual logging, water
\* logging and plan generation.
C25_AutoLogsMatchFlags ==
    (phase = "run" /\ pending = <<>>) =>
        Cardinality(AutoLogged(activityLog)) = CompletedPairs(savedPlans)


\* C26: a history clear performed while a generation request is outstanding is
\* not undone when the request succeeds. A request that started with a
\* non-empty plan history and resolves on an empty one (the history was
\* cleared in between) leaves exactly the newly generated record, in memory
\* and in localStorage.
C26_ClearNotUndone ==
    [][\A i \in 1..Len(pending) :
          (/\ phase = "run"
           /\ pending[i].savedPlans # <<>>
           /\ savedPlans = <<>>
           /\ StoredPlans(storage) = <<>>
           /\ GenerateResolve
           /\ pending' = Without(pending, i))
          => /\ Len(savedPlans') = 1
             /\ Len(StoredPlans(storage')) = 1]_vars


\* C27: through the user interface at most one generation request is
\* outstanding at any time. While isLoading is true the form is not offered,
\* and isLoading is true for as long as a request is outstanding.
C27_OneRequestThroughUI ==
    /\ Len(pending) <= 1
    /\ pending # <<>> => isLoading
    /\ isLoading => renderGeneratorContent # "UserInputForm"

\* A second request is outstanding after the first one succeeded.
C27_Witness ==
    /\ Len(pending) = 1
    /\ NewSince(savedPlans) = 1
    /\ renderGeneratorContent = "LoadingSpinner"

\* The request is over and shows either the plan or the error, not both.
Settled ==
    /\ pending = <<>>
    /\ ~isLoading
    /\ \/ fitnessPlan # Null /\ error = NoError
       \/ fitnessPlan = Null /\ error # NoError

\* C28: every generation request whose service call returns eventually leaves
\* isLoading = false with exactly one of the plan (and no error) or the error
\* message (and no plan); isLoading is true only while a call has not
\* returned.
C28_RequestSettles ==
    /\ [](isLoading => pending # <<>>)
    /\ (pending # <<>>) ~> Settled

\* A request succeeded and a later one failed: the error is shown, no plan.
C28_Witness ==
    /\ Settled
    /\ error = GenerationFailed
    /\ NewSince(savedPlans) = 1


\* The plan record apart from its completion flags.
SansFlags(savedPlan) == [savedPlan EXCEPT !.completionStatus = {}]

\* C29: marking a day complete changes only completionStatus[day] of the plan
\* with the given id. That plan keeps its id, date, profile snapshot,
\* generated plan and other completion flags; every plan with another id, the
\* length and order of the plan history and the character profile (in memory
\* and in localStorage) are unchanged.
C29_MarkCompleteFrame ==
    [][\A planId \in PlanIdInputs, day \in CompletionDays :
          (phase = "run" /\ Fresh(planId, day) /\ handleMarkComplete(planId, day)) =>
             /\ Len(savedPlans') = Len(savedPlans)
             /\ \A i \in 1..Len(savedPlans) :
                   IF savedPlans[i].id = planId
                   THEN /\ SansFlags(savedPlans'[i]) = SansFlags(savedPlans[i])
                        /\ savedPlans'[i].completionStatus =
                               savedPlans[i].completionStatus \cup {day}
                   ELSE savedPlans'[i] = savedPlans[i]
             /\ storage'["fitnessPlans"] = stringifyPlans(savedPlans')
             /\ characterGender' = characterGender
             /\ storage'["characterGender"] = storage["characterGender"]]_vars

\* Of two saved plans with different ids, one has Monday completed and the
\* other has no day completed.
C29_Witness ==
    \E i, j \in 1..Len(savedPlans) :
       /\ savedPlans[i].id # savedPlans[j].id
       /\ savedPlans[i].completionStatus = {"Monday"}
       /\ savedPlans[j].completionStatus = {}
       /\ \E k \in 1..Len(activityLog) : IsAutoLog(activityLog[k], "Monday")

====
